---------------------------- MODULE Spec2Model ----------------------------
(***************************************************************************)
(* A model of gdg.go, the Deep Zoom Image (DZI) tile generator.            *)
(*                                                                         *)
(* Generate (the Walker) plans the levels maxLevel, ..., 0.  At each level *)
(* it registers cols*rows tile tasks with a WaitGroup, launches one        *)
(* goroutine per tile (SaveTile, on a crop of the working image), halves   *)
(* the option's width and height and replaces the working image by its     *)
(* thumbnail.  After level 0 it waits for the WaitGroup and returns nil.   *)
(*                                                                         *)
(* Spec     : Generate and its SaveTile goroutines, every interleaving.    *)
(* FairSpec : the same under fair scheduling, for termination.             *)
(* GeomSpec : the pure geometry functions applied to bounded inputs.       *)
(***************************************************************************)
EXTENDS Integers, Sequences, FiniteSets, TLC

(***************************************************************************)
(* Bounds of the model.                                                    *)
(***************************************************************************)
MaxDim == 3
MaxTileSize == 2
MaxOverlap == 1
MaxTasks == 4
MaxFairTasks == 3
MaxGeomDim == 6
MaxGeomTileSize == 3
MaxGeomOverlap == 3

(***************************************************************************)
(* The image formats: the two the switch of SaveTile knows, and one it     *)
(* does not.  The runs of Spec take png for the known formats: jpeg and    *)
(* png differ in the encoder the switch calls and in the path's extension, *)
(* and in nothing the model holds.                                         *)
(***************************************************************************)
JPEG == "jpeg"
PNG == "png"
Formats == {PNG, "bmp"}

VARIABLES
    opt,      \* the caller's Option, which Generate reads and writes through its pointer
    pc,       \* the Walker's position in Generate
    level,    \* Generate's local level
    cols,     \* Generate's local cols
    rows,     \* Generate's local rows
    col,      \* Generate's local col
    row,      \* Generate's local row
    tm,       \* Generate's working image
    wg,       \* the WaitGroup's counter
    tasks,    \* the SaveTile goroutines, in the order of their go statements
    files,    \* what the Saver holds: path -> bytes
    ret,      \* what Generate returned
    opt0,     \* history: the Option as it was on entry
    plan,     \* history: the levels planned so far, with the dimensions used
    probe     \* GeomSpec: the last application of a geometry function

vars == <<opt, pc, level, cols, rows, col, row, tm, wg, tasks, files, ret,
          opt0, plan, probe>>

(***************************************************************************)
(* Arithmetic of the source.  The source computes in float64; the values   *)
(* of the model are far below 2^53, where float64 holds every integer and  *)
(* every quotient by 2 exactly, and math.Log2 is exact on powers of two.   *)
(***************************************************************************)
Max(a, b) == IF a >= b THEN a ELSE b

\* 2^k, for the properties.
RECURSIVE Pow2(_)
Pow2(k) == IF k = 0 THEN 1 ELSE 2 * Pow2(k - 1)

\* floor(log2(x)) for x >= 1: the binary exponent of x.
RECURSIVE FloorLog2(_)
FloorLog2(x) == IF x <= 1 THEN 0 ELSE 1 + FloorLog2(x \div 2)

\* whether log2(x) is an integer, for x >= 1.
RECURSIVE IsPow2(_)
IsPow2(x) == IF x <= 1 THEN TRUE ELSE (x % 2 = 0) /\ IsPow2(x \div 2)

\* A faulty variant: the logarithm rounded down.
CeilLog2Floor(x) == FloorLog2(x)

\* math.Ceil(math.Log2(x)) for x >= 1.
CeilLog2(x) == IF IsPow2(x) THEN FloorLog2(x) ELSE FloorLog2(x) + 1

\* math.Ceil(float64(a) / float64(b)) for a >= 0, b >= 1.
CeilDiv(a, b) == (a + b - 1) \div b

(***************************************************************************)
(* Geometry.                                                               *)
(***************************************************************************)
GetMaxLevel(width, height) == CeilLog2(Max(width, height))

GetLevelGrids(lvl, width, height, tileSize) ==
    <<CeilDiv(width, tileSize), CeilDiv(height, tileSize)>>

\* image.Rectangle: Min.X, Min.Y, Max.X, Max.Y; the zero value is all 0.
Rect(minX, minY, maxX, maxY) ==
    [MinX |-> minX, MinY |-> minY, MaxX |-> maxX, MaxY |-> maxY]

\* The uint differences col*TileSize - Overlap wrap modulo 2^64 and int()
\* reads the result back as the signed difference, which is what is written here.
ComputeTileRect(o, c, r, maxCol, maxRow) ==
    LET minX == IF c = 0 THEN 0 ELSE c * o.TileSize - o.Overlap
        maxX == IF c = 0 THEN o.TileSize + o.Overlap
                ELSE IF c = maxCol - 1 THEN o.Width
                ELSE (c + 1) * o.TileSize + o.Overlap
        minY == IF r = 0 THEN 0 ELSE r * o.TileSize - o.Overlap
        maxY == IF r = 0 THEN o.TileSize + o.Overlap
                ELSE IF r = maxRow - 1 THEN o.Height
                ELSE (r + 1) * o.TileSize + o.Overlap
    IN  Rect(minX, minY, maxX, maxY)

(***************************************************************************)
(* Images.  An image is the pixels of region `rect` of the `src`-th        *)
(* working image of the run (0: the caller's image, k: its k-th            *)
(* thumbnail).                                                             *)
(***************************************************************************)
Min(a, b) == IF a <= b THEN a ELSE b

Image(src, w, h) == [src |-> src, rect |-> Rect(0, 0, w, h)]

EmptyImage == [src |-> -1, rect |-> Rect(0, 0, 0, 0)]

\* imaging.Crop: the rectangle is intersected with the image's bounds; an
\* empty intersection gives the empty image.
Crop(img, r) ==
    LET b == img.rect
        x == Rect(Max(r.MinX, b.MinX), Max(r.MinY, b.MinY),
                  Min(r.MaxX, b.MaxX), Min(r.MaxY, b.MaxY))
    IN  IF x.MinX >= x.MaxX \/ x.MinY >= x.MaxY THEN EmptyImage
        ELSE [src |-> img.src, rect |-> x]

\* imaging.Thumbnail(img, w, h, Box): a new image of w x h pixels.
Thumbnail(img, w, h) ==
    IF w <= 0 \/ h <= 0 THEN EmptyImage ELSE Image(img.src + 1, w, h)

(***************************************************************************)
(* SaveTile's path and encoding.                                           *)
(***************************************************************************)
\* A faulty variant: the path formed from the Walker's loop variables as they
\* are when the task runs.
ImgPathShared(dirPath, lvl, c, r, format) ==
    dirPath \o "/" \o ToString(level) \o "/" \o ToString(col) \o "_"
        \o ToString(row) \o "." \o format

\* fmt.Sprintf("%s/%d/%d_%d.%s", dirPath, level, col, row, format)
ImgPath(dirPath, lvl, c, r, format) ==
    dirPath \o "/" \o ToString(lvl) \o "/" \o ToString(c) \o "_"
        \o ToString(r) \o "." \o format

\* What the switch leaves in the buffer when the encoder returns nil; no case
\* matches another format, and the buffer stays empty.
EmptyBuffer == [format |-> "", img |-> EmptyImage]
Encoded(format, m) ==
    IF format \in {JPEG, PNG} THEN [format |-> format, img |-> m]
    ELSE EmptyBuffer


(***************************************************************************)
(* The runs of the model.                                                  *)
(***************************************************************************)
Option(dirPath, format, overlap, tileSize, width, height) ==
    [DirPath |-> dirPath, Format |-> format, Overlap |-> overlap,
     TileSize |-> tileSize, Width |-> width, Height |-> height]

\* The number of tiles of a whole run: what bounds the goroutines of the model.
RECURSIVE TotalTiles(_, _, _, _)
TotalTiles(lvl, width, height, tileSize) ==
    CeilDiv(width, tileSize) * CeilDiv(height, tileSize)
        + (IF lvl = 0 THEN 0
           ELSE TotalTiles(lvl - 1, CeilDiv(width, 2), CeilDiv(height, 2), tileSize))

\* The options of the runs of Spec: an overlap smaller than the tile size, as
\* is the convention, and at most MaxTasks tiles in all.
Options ==
    { o \in { Option("out", f, ov, ts, w, h) :
                 f \in Formats, ov \in 0..MaxOverlap, ts \in 1..MaxTileSize,
                 w \in 1..MaxDim, h \in 1..MaxDim } :
        /\ o.Overlap < o.TileSize
        /\ TotalTiles(CeilLog2(Max(o.Width, o.Height)), o.Width, o.Height,
                      o.TileSize) <= MaxTasks }

NoProbe == [fn |-> "none"]

\* The state on entry to Generate(m, opt): m is the caller's image, whose
\* width and height are the option's.
InitWith(o) ==
    /\ opt = o
    /\ opt0 = o
    /\ pc = "entry"
    /\ level = 0
    /\ cols = 0
    /\ rows = 0
    /\ col = 0
    /\ row = 0
    /\ tm = Image(0, o.Width, o.Height)
    /\ wg = 0
    /\ tasks = << >>
    /\ files = [p \in {} |-> EmptyBuffer]
    /\ ret = "none"
    /\ plan = << >>
    /\ probe = NoProbe

Init == \E o \in Options : InitWith(o)

(***************************************************************************)
(* Generate, the Walker.                                                   *)
(***************************************************************************)
\* level := GetMaxLevel(opt.Width, opt.Height); wg := &sync.WaitGroup{}; tm := m
GenerateEnter ==
    /\ pc = "entry"
    /\ level' = GetMaxLevel(opt.Width, opt.Height)
    /\ wg' = 0
    /\ pc' = "plan"
    /\ UNCHANGED <<opt, cols, rows, col, row, tm, tasks, files, ret, opt0,
                   plan, probe>>

\* A faulty variant: one column of the level registered, not its grid.
AddCountCols(c, r) == c

\* wg.Add(int(cols * rows))
AddCount(c, r) == c * r

\* A faulty variant: a level is entered only once the tasks of the levels
\* before it have finished.
LoopTestDrained(lvl) == lvl >= 0 /\ wg = 0

\* for ; level >= 0; level-- : the loop's test, which a uint always passes.
LoopTest(lvl) == lvl >= 0

\* cols, rows := GetLevelGrids(...); wg.Add(int(cols * rows)); col = 0 (; row = 0)
PlanLevel ==
    /\ pc = "plan"
    /\ LoopTest(level)
    /\ LET g == GetLevelGrids(level, opt.Width, opt.Height, opt.TileSize)
       IN  /\ cols' = g[1]
           /\ rows' = g[2]
           /\ wg' = wg + AddCount(g[1], g[2])
           /\ plan' = Append(plan, [level |-> level, width |-> opt.Width,
                                    height |-> opt.Height,
                                    cols |-> g[1], rows |-> g[2]])
           /\ pc' = IF g[1] > 0 /\ g[2] > 0 THEN "launch" ELSE "shrink"
    /\ col' = 0
    /\ row' = 0
    /\ UNCHANGED <<opt, level, tm, tasks, files, ret, opt0, probe>>

\* The image a go statement hands to SaveTile: its arguments are evaluated by
\* the Walker, at the go statement.
TileImage(img, o, c, r, maxCol, maxRow) ==
    Crop(img, ComputeTileRect(o, c, r, maxCol, maxRow))

\* A faulty variant: col and row handed over in the wrong order.
NewTaskSwapped(o, lvl, c, r, m) ==
    [dirPath |-> o.DirPath, level |-> lvl, col |-> r, row |-> c,
     format |-> o.Format, m |-> m, pc |-> "ready", err |-> "nil",
     imgPath |-> "", buffer |-> EmptyBuffer, saves |-> 0]

\* go SaveTile(opt.DirPath, opt.Saver, level, col, row, opt.Format, imaging.Crop(...), wg)
NewTask(o, lvl, c, r, m) ==
    [dirPath |-> o.DirPath, level |-> lvl, col |-> c, row |-> r,
     format |-> o.Format, m |-> m, pc |-> "ready", err |-> "nil",
     imgPath |-> "", buffer |-> EmptyBuffer, saves |-> 0]

\* One go statement of the two for loops, and the loops' steps after it.
LaunchTile ==
    /\ pc = "launch"
    /\ col < cols
    /\ row < rows
    /\ tasks' = Append(tasks, NewTask(opt, level, col, row,
                                      TileImage(tm, opt, col, row, cols, rows)))
    /\ IF row + 1 < rows
       THEN /\ row' = row + 1
            /\ UNCHANGED <<col, pc>>
       ELSE /\ col' = col + 1
            /\ row' = IF col + 1 < cols THEN 0 ELSE rows
            /\ pc' = IF col + 1 < cols THEN "launch" ELSE "shrink"
    /\ UNCHANGED <<opt, level, cols, rows, tm, wg, files, ret, opt0, plan, probe>>

\* A faulty variant: the half rounded down.
HalfFloor(x) == x \div 2

\* uint(math.Ceil(float64(x) / 2))
HalfCeil(x) == CeilDiv(x, 2)

\* A faulty variant: the loop left one level early.
LastLevelAtOne(lvl) == lvl <= 1

\* if level == 0 { break }
LastLevel(lvl) == lvl = 0

\* level--
NextLevel(lvl) == lvl - 1

\* opt.Width, opt.Height = ceil(/2); tm = imaging.Thumbnail(tm, ...); runtime.GC();
\* then break at level 0, else level-- and the loop's test, which a uint passes.
Downsample ==
    /\ pc = "shrink"
    /\ LET w == HalfCeil(opt.Width)
           h == HalfCeil(opt.Height)
       IN  /\ opt' = [opt EXCEPT !.Width = w, !.Height = h]
           /\ tm' = Thumbnail(tm, w, h)
    /\ IF LastLevel(level)
       THEN /\ pc' = "wait"
            /\ UNCHANGED level
       ELSE /\ pc' = "plan"
            /\ level' = NextLevel(level)
    /\ UNCHANGED <<cols, rows, col, row, wg, tasks, files, ret, opt0, plan, probe>>

\* A faulty variant: a wait that does not block.
WaitReleasedAtOnce(counter) == TRUE

\* wg.Wait() returns when the counter is 0.
WaitReleased(counter) == counter = 0

\* wg.Wait(); return nil
WaitAll ==
    /\ pc = "wait"
    /\ WaitReleased(wg)
    /\ pc' = "returned"
    /\ ret' = "nil"
    /\ UNCHANGED <<opt, level, cols, rows, col, row, tm, wg, tasks, files,
                   opt0, plan, probe>>

(***************************************************************************)
(* SaveTile, one goroutine per tile.                                       *)
(***************************************************************************)
Known(format) == format \in {JPEG, PNG}

\* A faulty variant: the tile's region read from the Walker's working image
\* when the task runs.
EncoderInputLazy(t) == [t.m EXCEPT !.src = tm.src]

\* The image the encoder reads: SaveTile's parameter m.
EncoderInput(t) == t.m

\* imgPath := ...; the switch; the encoder returns nil, or no case matches.
EncodeOk(i) ==
    /\ tasks[i].pc = "ready"
    /\ tasks' = [tasks EXCEPT ![i].pc = "encoded",
                    ![i].imgPath = ImgPath(tasks[i].dirPath, tasks[i].level,
                                           tasks[i].col, tasks[i].row,
                                           tasks[i].format),
                    ![i].buffer = Encoded(tasks[i].format, EncoderInput(tasks[i]))]
    /\ UNCHANGED <<opt, pc, level, cols, rows, col, row, tm, wg, files, ret,
                   opt0, plan, probe>>

\* imgPath := ...; the switch; the encoder returns an error: return err
EncodeFail(i) ==
    /\ tasks[i].pc = "ready"
    /\ Known(tasks[i].format)
    /\ tasks' = [tasks EXCEPT ![i].pc = "exit", ![i].err = "encode",
                    ![i].imgPath = ImgPath(tasks[i].dirPath, tasks[i].level,
                                           tasks[i].col, tasks[i].row,
                                           tasks[i].format)]
    /\ UNCHANGED <<opt, pc, level, cols, rows, col, row, tm, wg, files, ret,
                   opt0, plan, probe>>

\* A faulty variant: nothing is stored once some task has failed.
SavedUnlessFailed(path, buffer) ==
    IF \E j \in 1..Len(tasks) : tasks[j].err # "nil" THEN files
    ELSE (path :> buffer) @@ files

\* What the saver holds once SaveFile(path, buffer) has returned nil.
Saved(path, buffer) == (path :> buffer) @@ files

\* Whether SaveTile goes on to the saver: err == nil after the switch.
ReachesSaver(i) == tasks[i].pc = "encoded"

\* saver.SaveFile(imgPath, &buffer) returns nil: the saver holds the bytes.
StoreOk(i) ==
    /\ ReachesSaver(i)
    /\ files' = Saved(tasks[i].imgPath, tasks[i].buffer)
    /\ tasks' = [tasks EXCEPT ![i].pc = "exit", ![i].saves = @ + 1]
    /\ UNCHANGED <<opt, pc, level, cols, rows, col, row, tm, wg, ret, opt0,
                   plan, probe>>

\* saver.SaveFile(imgPath, &buffer) returns an error: return err
StoreFail(i) ==
    /\ ReachesSaver(i)
    /\ tasks' = [tasks EXCEPT ![i].pc = "exit", ![i].err = "store",
                                ![i].saves = @ + 1]
    /\ UNCHANGED <<opt, pc, level, cols, rows, col, row, tm, wg, files, ret,
                   opt0, plan, probe>>

\* A faulty variant: wg.Done() called on the successful return only.
SignalsOnSuccess(i) == IF tasks[i].err = "nil" THEN 1 ELSE 0

\* defer wg.Done(): one call at every return of SaveTile.
Signals(i) == 1

\* The deferred calls, at every return: runtime.GC(), then wg.Done().  The
\* error SaveTile returns is the result of a go statement: nobody receives it.
TileDone(i) ==
    /\ tasks[i].pc = "exit"
    /\ wg' = wg - Signals(i)
    /\ tasks' = [tasks EXCEPT ![i].pc = "done"]
    /\ UNCHANGED <<opt, pc, level, cols, rows, col, row, tm, files, ret, opt0,
                   plan, probe>>

SaveTile(i) ==
    \/ EncodeOk(i)
    \/ EncodeFail(i)
    \/ StoreOk(i)
    \/ StoreFail(i)
    \/ TileDone(i)

Generate ==
    \/ GenerateEnter
    \/ PlanLevel
    \/ LaunchTile
    \/ Downsample
    \/ WaitAll

Next ==
    \/ Generate
    \/ \E i \in 1..Len(tasks) : SaveTile(i)

Spec == Init /\ [][Next]_vars

\* The options of the runs of FairSpec: no overlap, which changes the tiles'
\* rectangles and no step of a run, and at most MaxFairTasks tiles in all.
FairOptions ==
    { o \in Options :
        /\ o.Overlap = 0
        /\ TotalTiles(CeilLog2(Max(o.Width, o.Height)), o.Width, o.Height,
                      o.TileSize) <= MaxFairTasks }

FairInit == \E o \in FairOptions : InitWith(o)

\* Spec under fair scheduling: while some goroutine has a step to take, a step
\* is taken.  Every call of an encoder or of the saver returns (EncodeOk,
\* EncodeFail, StoreOk and StoreFail are single steps).
FairSpec == FairInit /\ [][Next]_vars /\ WF_vars(Next)

(***************************************************************************)
(* GeomSpec: the geometry functions on their own.  A state holds an        *)
(* option; a step applies one function to it and keeps the application in  *)
(* probe, or halves the option's dimensions as Generate does between two   *)
(* levels, so that the dimensions of every level of a run are reached.     *)
(***************************************************************************)
\* The options of the spec's examples: width, height, tile size, overlap.
Scenarios ==
    { Option("out", PNG, 0, 256, 512, 512), Option("out", JPEG, 1, 256, 300, 200),
      Option("out", PNG, 1, 256, 200, 200), Option("out", PNG, 0, 256, 256, 256),
      Option("out", PNG, 0, 256, 257, 256), Option("out", PNG, 0, 256, 500, 500) }

GeomOptions ==
    { Option("out", PNG, ov, ts, w, h) :
         ov \in 0..MaxGeomOverlap, ts \in 1..MaxGeomTileSize,
         w \in 1..MaxGeomDim, h \in 1..MaxGeomDim } \cup Scenarios

GeomInit == \E o \in GeomOptions : InitWith(o)

GeomFrame == UNCHANGED <<pc, level, cols, rows, col, row, tm, wg, tasks, files,
                         ret, opt0, plan>>

ProbeMaxLevel ==
    /\ probe' = [fn |-> "GetMaxLevel", width |-> opt.Width, height |-> opt.Height,
                 level |-> GetMaxLevel(opt.Width, opt.Height)]
    /\ UNCHANGED opt
    /\ GeomFrame

ProbeLevelGrids ==
    /\ LET g == GetLevelGrids(0, opt.Width, opt.Height, opt.TileSize)
       IN  probe' = [fn |-> "GetLevelGrids", cols |-> g[1], rows |-> g[2]]
    /\ UNCHANGED opt
    /\ GeomFrame

ProbeTileRect ==
    /\ LET g == GetLevelGrids(0, opt.Width, opt.Height, opt.TileSize)
       IN  \E c \in 0..(g[1] - 1), r \in 0..(g[2] - 1) :
              probe' = [fn |-> "ComputeTileRect", col |-> c, row |-> r,
                        maxCol |-> g[1], maxRow |-> g[2],
                        rect |-> ComputeTileRect(opt, c, r, g[1], g[2])]
    /\ UNCHANGED opt
    /\ GeomFrame

\* The option of the next level of a run.
ProbeHalve ==
    /\ Max(opt.Width, opt.Height) > 1
    /\ opt' = [opt EXCEPT !.Width = HalfCeil(opt.Width),
                          !.Height = HalfCeil(opt.Height)]
    /\ probe' = NoProbe
    /\ GeomFrame

GeomNext ==
    \/ ProbeMaxLevel
    \/ ProbeLevelGrids
    \/ ProbeTileRect
    \/ ProbeHalve

GeomSpec == GeomInit /\ [][GeomNext]_vars

(***************************************************************************)
(* Properties.                                                             *)
(***************************************************************************)
TaskIds == 1..Len(tasks)

Failed(i) == tasks[i].err # "nil"

\* The tiles registered by the levels planned so far.
RECURSIVE PlannedTiles(_)
PlannedTiles(k) ==
    IF k = 0 THEN 0 ELSE plan[k].cols * plan[k].rows + PlannedTiles(k - 1)

TasksOfLevel(lvl) == { i \in TaskIds : tasks[i].level = lvl }

Returned == pc = "returned"

\* C1: completion barrier.  When Generate has returned, every level from
\* maxLevel down to 0 has been planned, every tile registered at any level
\* has its task, and every task has finished: none is still running, none
\* has yet to start.
C1_CompletionBarrier ==
    Returned =>
        /\ { plan[k].level : k \in 1..Len(plan) } = 0..plan[1].level
        /\ Len(tasks) = PlannedTiles(Len(plan))
        /\ \A i \in TaskIds : tasks[i].pc = "done"

\* Generate has returned from a run of several levels in which one task
\* failed and another stored its tile.
C1_Witness ==
    /\ Returned
    /\ Len(plan) >= 2
    /\ Len(tasks) >= 3
    /\ \E i, j \in TaskIds : Failed(i) /\ ~Failed(j)

\* C2: error aggregation.  Generate returns nil only when every tile task
\* succeeded, and a non-nil error when at least one failed.
C2_ErrorAggregation ==
    Returned => (ret = "nil" <=> \A i \in TaskIds : ~Failed(i))

\* C3: rectangle clamping.  The rectangle ComputeTileRect gives for a tile
\* of a level's grid lies within the level's width x height:
\* 0 <= left <= right <= width and 0 <= top <= bottom <= height.
C3_RectClamped ==
    probe.fn = "ComputeTileRect" =>
        /\ 0 <= probe.rect.MinX
        /\ probe.rect.MinX <= probe.rect.MaxX
        /\ probe.rect.MaxX <= opt.Width
        /\ 0 <= probe.rect.MinY
        /\ probe.rect.MinY <= probe.rect.MaxY
        /\ probe.rect.MaxY <= opt.Height

\* The core region of tile (c, r): its rectangle with `overlap` pixels
\* trimmed from each edge that borders a neighbouring tile.
CoreRegion(o, c, r, maxCol, maxRow) ==
    LET t == ComputeTileRect(o, c, r, maxCol, maxRow)
    IN  Rect(IF c > 0 THEN t.MinX + o.Overlap ELSE t.MinX,
             IF r > 0 THEN t.MinY + o.Overlap ELSE t.MinY,
             IF c < maxCol - 1 THEN t.MaxX - o.Overlap ELSE t.MaxX,
             IF r < maxRow - 1 THEN t.MaxY - o.Overlap ELSE t.MaxY)

Area(t) == (t.MaxX - t.MinX) * (t.MaxY - t.MinY)

Contains(t, x, y) == t.MinX <= x /\ x < t.MaxX /\ t.MinY <= y /\ y < t.MaxY

\* The areas of the core regions of tiles 0..k-1, counted column by column.
RECURSIVE CoreAreas(_, _, _, _)
CoreAreas(o, k, maxCol, maxRow) ==
    IF k = 0 THEN 0
    ELSE Area(CoreRegion(o, (k - 1) \div maxRow, (k - 1) % maxRow, maxCol, maxRow))
            + CoreAreas(o, k - 1, maxCol, maxRow)

\* C4: core-region partition.  With overlap < tileSize, the core regions of
\* the tiles of one level partition the width x height canvas: every pixel
\* lies in exactly one core region, no core region leaves the canvas, and
\* the core areas sum to width*height.
C4_CorePartition ==
    (probe.fn = "GetLevelGrids" /\ opt.Overlap < opt.TileSize) =>
        LET tiles == (0..(probe.cols - 1)) \X (0..(probe.rows - 1))
            core(t) == CoreRegion(opt, t[1], t[2], probe.cols, probe.rows)
        IN  /\ \A x \in 0..(opt.Width - 1), y \in 0..(opt.Height - 1) :
                  Cardinality({ t \in tiles : Contains(core(t), x, y) }) = 1
            /\ \A t \in tiles :
                  /\ 0 <= core(t).MinX /\ core(t).MaxX <= opt.Width
                  /\ 0 <= core(t).MinY /\ core(t).MaxY <= opt.Height
            /\ CoreAreas(opt, probe.cols * probe.rows, probe.cols, probe.rows)
                  = opt.Width * opt.Height

\* C9: GetMaxLevel(width, height) is the smallest k >= 0 with
\* 2^k >= max(width, height): 8 for 256x256, 9 for 257x256, 0 for 1x1.
C9_MaxLevel ==
    probe.fn = "GetMaxLevel" =>
        LET k == probe.level
            mx == Max(probe.width, probe.height)
        IN  /\ k >= 0
            /\ Pow2(k) >= mx
            /\ \A j \in 0..(k - 1) : Pow2(j) < mx
            /\ (probe.width = 256 /\ probe.height = 256) => k = 8
            /\ (probe.width = 257 /\ probe.height = 256) => k = 9
            /\ (probe.width = 1 /\ probe.height = 1) => k = 0

\* GetMaxLevel has been applied to 257 x 256 and has given 9.
C9_Witness ==
    /\ probe.fn = "GetMaxLevel"
    /\ probe.width = 257
    /\ probe.height = 256
    /\ probe.level = 9

\* C5: level order.  The levels are planned in the order maxLevel,
\* maxLevel-1, ..., 0, each once, maxLevel being GetMaxLevel of the width and
\* height on entry; the tasks are submitted in that order of levels, and no
\* task of a lower level is submitted before all the tasks of the levels
\* above it.
C5_LevelOrder ==
    /\ LET maxLevel == GetMaxLevel(opt0.Width, opt0.Height)
       IN  \A k \in 1..Len(plan) :
              /\ plan[k].level = maxLevel - (k - 1)
              /\ plan[k].level >= 0
    /\ pc \in {"wait", "returned"} =>
          (Len(plan) > 0 /\ plan[Len(plan)].level = 0)
    /\ \A i, j \in TaskIds : i < j => tasks[i].level >= tasks[j].level
    /\ \A k \in 1..Len(plan) :
          (\E i \in TaskIds : tasks[i].level < plan[k].level) =>
              Cardinality(TasksOfLevel(plan[k].level)) = plan[k].cols * plan[k].rows

\* Generate has returned from a run of three levels, 2, 1 and 0, whose first
\* level had more than one tile.
C5_Witness ==
    /\ Returned
    /\ Len(plan) = 3
    /\ plan[1].cols * plan[1].rows > 1
    /\ tasks[Len(tasks)].level = 0

\* The tile a task is for.
Triple(i) == <<tasks[i].level, tasks[i].col, tasks[i].row>>

\* The triples of the grids of the levels planned so far.
PlannedTriples ==
    UNION { {plan[k].level} \X (0..(plan[k].cols - 1)) \X (0..(plan[k].rows - 1)) :
            k \in 1..Len(plan) }

\* C6: tile set.  No two tasks are for the same (level, col, row); each is
\* for a tile of the grid of a planned level; a task that has formed its path
\* targets {root}/{level}/{col}_{row}.{format}, and no two tasks target the
\* same path; when all levels are done there is a task for every tile of
\* every level's grid, as many as the sum over the levels of cols*rows.
C6_TileSet ==
    /\ \A i, j \in TaskIds : i # j => Triple(i) # Triple(j)
    /\ \A i \in TaskIds :
          \E k \in 1..Len(plan) :
              /\ tasks[i].level = plan[k].level
              /\ tasks[i].col \in 0..(plan[k].cols - 1)
              /\ tasks[i].row \in 0..(plan[k].rows - 1)
    /\ \A i \in TaskIds :
          tasks[i].pc # "ready" =>
              tasks[i].imgPath = opt0.DirPath \o "/" \o ToString(tasks[i].level)
                                    \o "/" \o ToString(tasks[i].col) \o "_"
                                    \o ToString(tasks[i].row) \o "." \o opt0.Format
    /\ \A i, j \in TaskIds :
          (i # j /\ tasks[i].pc # "ready" /\ tasks[j].pc # "ready") =>
              tasks[i].imgPath # tasks[j].imgPath
    /\ pc \in {"wait", "returned"} =>
          /\ { Triple(i) : i \in TaskIds } = PlannedTriples
          /\ Len(tasks) = PlannedTiles(Len(plan))
          /\ { plan[k].level : k \in 1..Len(plan) } = 0..plan[1].level

\* Generate has returned from a run with four tiles, one of them in a second
\* column, and every tile is stored.
C6_Witness ==
    /\ Returned
    /\ Len(tasks) = 4
    /\ \E i \in TaskIds : tasks[i].col = 1
    /\ Cardinality(DOMAIN files) = 4

\* The number of times the working image had been replaced when level lvl
\* was planned.
ImageOfLevel(lvl) == plan[1].level - lvl

\* C7: capture at submission.  The image of a task of level L is the crop of
\* level L's working image (the caller's image downsampled maxLevel - L
\* times), whatever the working image is now, and what the task encodes and
\* stores is that crop.
C7_CaptureAtSubmission ==
    \A i \in TaskIds :
        /\ tasks[i].m.src = ImageOfLevel(tasks[i].level)
        /\ (tasks[i].pc # "ready" /\ ~Failed(i) /\ Known(tasks[i].format)) =>
              tasks[i].buffer.img.src = ImageOfLevel(tasks[i].level)
        /\ (tasks[i].pc \in {"exit", "done"} /\ ~Failed(i) /\ Known(tasks[i].format)) =>
              files[tasks[i].imgPath].img.src = ImageOfLevel(tasks[i].level)

\* A task of the first level has encoded its crop of the caller's image
\* after the Walker replaced the working image.
C7_Witness ==
    \E i \in TaskIds :
        /\ tasks[i].pc = "encoded"
        /\ Known(tasks[i].format)
        /\ tasks[i].m.src = 0
        /\ tasks[i].buffer.img.src = 0
        /\ tm.src >= 1

\* C8: sibling isolation.  When Generate has returned, every tile of every
\* level has a finished task, and every task that did not itself fail has
\* stored its encoding at its path, however many other tasks failed.
C8_SiblingIsolation ==
    Returned =>
        /\ { Triple(i) : i \in TaskIds } = PlannedTriples
        /\ \A i \in TaskIds :
              /\ tasks[i].pc = "done"
              /\ ~Failed(i) =>
                    /\ tasks[i].imgPath \in DOMAIN files
                    /\ files[tasks[i].imgPath] = tasks[i].buffer

\* Generate has returned from a run in which the saver failed for exactly
\* one tile and the three other tiles are stored.
C8_Witness ==
    /\ Returned
    /\ Len(tasks) = 4
    /\ Cardinality({ i \in TaskIds : tasks[i].err = "store" }) = 1
    /\ Cardinality({ i \in TaskIds : Failed(i) }) = 1
    /\ Cardinality(DOMAIN files) = 3

\* C10: level dimensions.  The first level planned uses the width and height
\* on entry, each further level the halves, rounded up, of the level before;
\* each grid is ceil(width/tileSize) x ceil(height/tileSize); a tile in the
\* last column or row, when not the first, ends at the level's width or
\* height; level 0 is 1 x 1 with a 1 x 1 grid; and 512 x 512 has maxLevel 9
\* with a 2 x 2 grid of 256-tiles.
C10_LevelDimensions ==
    /\ \A k \in 1..Len(plan) :
          /\ k = 1 => (plan[k].width = opt0.Width /\ plan[k].height = opt0.Height)
          /\ k > 1 =>
                /\ 2 * plan[k].width \in {plan[k-1].width, plan[k-1].width + 1}
                /\ 2 * plan[k].height \in {plan[k-1].height, plan[k-1].height + 1}
          /\ (plan[k].cols - 1) * opt0.TileSize < plan[k].width
          /\ plan[k].width <= plan[k].cols * opt0.TileSize
          /\ (plan[k].rows - 1) * opt0.TileSize < plan[k].height
          /\ plan[k].height <= plan[k].rows * opt0.TileSize
          /\ plan[k].level = 0 =>
                /\ plan[k].width = 1 /\ plan[k].height = 1
                /\ plan[k].cols = 1 /\ plan[k].rows = 1
          /\ \A i \in TaskIds :
             tasks[i].level = plan[k].level =>
                /\ tasks[i].m.rect.MaxX <= plan[k].width
                /\ tasks[i].m.rect.MaxY <= plan[k].height
                /\ tasks[i].col > 0 /\ tasks[i].col = plan[k].cols - 1 =>
                      tasks[i].m.rect.MaxX = plan[k].width
                /\ tasks[i].row > 0 /\ tasks[i].row = plan[k].rows - 1 =>
                      tasks[i].m.rect.MaxY = plan[k].height
    /\ GetMaxLevel(512, 512) = 9
    /\ GetLevelGrids(9, 512, 512, 256) = <<2, 2>>

\* Generate has returned from a run on a 3 x 2 image: the levels were
\* 3 x 2, 2 x 1 and 1 x 1.
C10_Witness ==
    /\ Returned
    /\ Len(plan) = 3
    /\ <<plan[1].width, plan[1].height>> = <<3, 2>>
    /\ <<plan[2].width, plan[2].height>> = <<2, 1>>
    /\ <<plan[3].width, plan[3].height>> = <<1, 1>>

\* C11: unrecognized format.  With a format that is neither jpeg nor png,
\* no task hands anything to the saver (none gets past its encoding, and the
\* saver holds nothing), and when Generate has returned it has returned an
\* error.
C11_UnrecognizedFormat ==
    ~Known(opt0.Format) =>
        /\ \A i \in TaskIds : tasks[i].saves = 0
        /\ DOMAIN files = {}
        /\ Returned => ret # "nil"

\* C12: immutable input.  When Generate has returned, the caller's Option is
\* what it was on entry.
C12_ImmutableInput ==
    Returned => opt = opt0

\* The tiles of a run as a function of the Option on entry alone: for each
\* level L, k = maxLevel - L halvings of the width and height, the grid of
\* the halved dimensions, and for each tile of the grid its path and the
\* region of the k-th working image it holds.
TilesOf(o) ==
    LET maxLevel == GetMaxLevel(o.Width, o.Height)
        tilesAt(k) ==
            LET w == CeilDiv(o.Width, Pow2(k))
                h == CeilDiv(o.Height, Pow2(k))
                g == GetLevelGrids(maxLevel - k, w, h, o.TileSize)
                ok == [o EXCEPT !.Width = w, !.Height = h]
            IN  { <<ImgPath(o.DirPath, maxLevel - k, c, r, o.Format),
                    Crop(Image(k, w, h), ComputeTileRect(ok, c, r, g[1], g[2]))>> :
                  c \in 0..(g[1] - 1), r \in 0..(g[2] - 1) }
    IN  UNION { tilesAt(k) : k \in 0..maxLevel }

\* C13: determinism.  When Generate has returned, the set of the tasks'
\* paths, each with the pixel rectangle of its tile, is the one the Option on
\* entry determines: two runs on the same inputs end with the same set,
\* whatever the order in which their tasks ran and whichever of them failed.
C13_Determinism ==
    Returned =>
        { <<tasks[i].imgPath, tasks[i].m>> : i \in TaskIds } = TilesOf(opt0)

\* Generate has returned from a run of four tiles in which the last task
\* submitted was the first to finish its encoding: the file of level 0 is
\* stored and a task of the first level failed at the saver.
C13_Witness ==
    /\ Returned
    /\ Len(tasks) = 4
    /\ tasks[4].imgPath \in DOMAIN files
    /\ tasks[1].err = "store"

\* The limit on the tile tasks in flight that C14 is checked with.  Generate
\* has no such limit: any number stands here for "a fixed limit".
FanOutLimit == 2

\* The tile tasks launched and not yet finished.
InFlight == { i \in TaskIds : tasks[i].pc # "done" }

\* C14: bounded fan-out.  At every moment the number of tile tasks launched
\* and not yet finished is at most the fixed limit.
C14_BoundedFanOut ==
    Cardinality(InFlight) <= FanOutLimit

\* A tile task has had an error back from the saver.
SinkErrorObserved == \E i \in TaskIds : tasks[i].err = "store"

\* C15: cooperative cancellation.  From a state in which a tile task has
\* observed a sink error, no step submits a new tile task.
C15_CooperativeCancellation ==
    [][SinkErrorObserved => Len(tasks') = Len(tasks)]_vars

\* The Walker is at a step before the final wait.
WalkerBeforeWait == pc \in {"entry", "plan", "launch", "shrink"}

\* C16: pipelining.  Before the final wait a step of the Walker is enabled
\* whatever the number of unfinished tile tasks; the Walker reaches the wait
\* only after level 0; and at the wait it has no step while a task is
\* unfinished.
C16_Pipelining ==
    /\ WalkerBeforeWait => ENABLED Generate
    /\ pc = "wait" => /\ level = 0
                      /\ plan[Len(plan)].level = 0
                      /\ Len(tasks) = PlannedTiles(Len(plan))
    /\ (pc = "wait" /\ \E i \in TaskIds : tasks[i].pc # "done") => ~ENABLED Generate

\* The Walker is downsampling towards, or submitting, the level below one
\* whose tile task has not yet started its encoding.
C16_Witness ==
    /\ \/ pc = "launch" /\ \E i \in TaskIds :
              tasks[i].level = level + 1 /\ tasks[i].pc = "ready"
       \/ pc = "shrink" /\ level > 0 /\ \E i \in TaskIds :
              tasks[i].level = level /\ tasks[i].pc = "ready"
    /\ \A i \in TaskIds : tasks[i].pc # "done"

\* C17: termination.  Under fair scheduling Generate eventually returns, with
\* every tile task finished, whichever of them fail.
C17_Termination ==
    <>(Returned /\ \A i \in TaskIds : tasks[i].pc = "done")

\* Generate has returned from a run of several levels in which every tile
\* task failed, one at its encoding and one at the saver.
C17_Witness ==
    /\ Returned
    /\ Len(plan) >= 2
    /\ \A i \in TaskIds : Failed(i)
    /\ \E i, j \in TaskIds : tasks[i].err = "encode" /\ tasks[j].err = "store"

\* Task i's own path.
OwnPath(i) ==
    ImgPath(tasks[i].dirPath, tasks[i].level, tasks[i].col, tasks[i].row,
            tasks[i].format)

\* Task i's encoding has completed successfully: the buffer holds the tile as
\* its encoder wrote it.
EncodeCompleted(i) ==
    /\ tasks[i].err # "encode"
    /\ tasks[i].buffer # EmptyBuffer
    /\ tasks[i].buffer = [format |-> tasks[i].format, img |-> tasks[i].m]

\* C18: encode before store.  Every tile task calls the saver at most once,
\* and a task that has called it had completed its encoding and called it with
\* its own path; a task whose encoding failed has not called it; and the saver
\* holds, at each path, the buffer of a task that stored it there.
C18_EncodeBeforeStore ==
    /\ \A i \in TaskIds :
          /\ tasks[i].saves <= 1
          /\ tasks[i].saves = 1 => EncodeCompleted(i) /\ tasks[i].imgPath = OwnPath(i)
          /\ tasks[i].err = "encode" => tasks[i].saves = 0
    /\ \A p \in DOMAIN files : \E i \in TaskIds :
          /\ tasks[i].saves = 1
          /\ tasks[i].imgPath = p
          /\ tasks[i].buffer = files[p]

\* C19: downsample only between levels.  The number of downsample steps that
\* have produced the Walker's working image is never more than maxLevel, and
\* is maxLevel when Generate has returned.
C19_DownsampleBetweenLevels ==
    LET maxLevel == GetMaxLevel(opt0.Width, opt0.Height)
    IN  /\ tm.src <= maxLevel
        /\ Returned => tm.src = maxLevel

\* The tile tasks that have called wg.Done.
DoneTasks == { i \in TaskIds : tasks[i].pc = "done" }

\* C20: WaitGroup accounting.  The counter is never negative and is the
\* number of tasks registered by wg.Add less the number that have called
\* wg.Done; no task is launched before the Add of its level, which registers
\* cols * rows tasks; and when Generate has returned every registered task has
\* been launched and has called Done, so that the counter is 0.
C20_WaitGroupAccounting ==
    /\ wg >= 0
    /\ wg = PlannedTiles(Len(plan)) - Cardinality(DoneTasks)
    /\ Len(tasks) <= PlannedTiles(Len(plan))
    /\ \A i \in TaskIds : \E k \in 1..Len(plan) : plan[k].level = tasks[i].level
    /\ \A k \in 1..Len(plan) :
          Cardinality(TasksOfLevel(plan[k].level)) <= plan[k].cols * plan[k].rows
    /\ Returned => wg = 0 /\ Cardinality(DoneTasks) = PlannedTiles(Len(plan))

\* The counter stands at 2 with a task registered and not yet launched, after
\* a task whose encoding failed and one whose store failed have each called
\* Done.
C20_Witness ==
    /\ wg >= 2
    /\ Len(tasks) < PlannedTiles(Len(plan))
    /\ \E i \in DoneTasks : tasks[i].err = "encode"
    /\ \E i \in DoneTasks : tasks[i].err = "store"

=============================================================================
